---- MODULE Spec2Model ----
(***************************************************************************)
(* Model of HighThrust/propagationOptimizationHighThrustTransfer.cpp:      *)
(* the perturbation-set builder                                            *)
(* getAccelerationModelsPerturbedPatchedConicsTrajectory and main( ), which*)
(* configures a transfer, computes the patched-conic trajectory, has the   *)
(* library propagate every arc, and then re-propagates every arc forward   *)
(* and backward from its middle.                                           *)
(*                                                                         *)
(* Representation of double: a double d is carried as the integer 4 * d    *)
(* (two fractional bits), so that halves of whole days and halves of a     *)
(* case selector are exact.  Rounding of IEEE arithmetic is not modelled.  *)
(* std::vector is a sequence; v.at( i ) is 0-based, see At.                *)
(***************************************************************************)
EXTENDS Integers, Sequences, FiniteSets, TLC

VARIABLES
    pc,                               \* position in main( )
    trajectoryParameters,             \* line 116
    transferCase,                     \* line 119
    transferBodyOrder,                \* line 122
    transferLegTypes,                 \* line 124
    trajectoryIndependentVariables,   \* line 158
    trajectoryComputed,               \* line 176 has returned
    accelerationMap,                  \* line 196
    bodyList,                         \* line 206
    dependentVariablesToSave,         \* line 226
    propagatorSettings,               \* line 238, the pointed-to settings
    integratorSettings,               \* line 201, the pointed-to settings
    lambertTargeterResultForEachLeg,  \* line 252
    fullProblemResultForEachLeg,      \* line 253
    dependentVariableResultForEachLeg,\* line 254
    currentArcMiddleTime,             \* line 271
    resultIterator,                   \* line 272, the key the iterator is at
    currentArc,                       \* line 274
    fullProblemSolution,              \* line 277
    currentArcMiddleState,            \* line 280
    forwardRun,                       \* line 298, what each forward simulator ran with
    backwardRun,                      \* line 316, what each backward simulator ran with
    written,                          \* files written by writeDataMapToTextFile
    failedArc,                        \* arc during which an exception left main, or -1
    lastWriter,                       \* history: the arc whose processing last assigned
                                      \* currentArcMiddleTime / initialTimeStep_ (-1: set-up)
    reads                             \* history: per arc, whose values of those two it read

configVars == <<trajectoryParameters, transferCase, transferBodyOrder, transferLegTypes,
                trajectoryIndependentVariables, trajectoryComputed>>
setupVars  == <<accelerationMap, bodyList, dependentVariablesToSave>>
libVars    == <<lambertTargeterResultForEachLeg, fullProblemResultForEachLeg,
                dependentVariableResultForEachLeg>>
loopVars   == <<propagatorSettings, integratorSettings, currentArcMiddleTime,
                resultIterator, currentArc, fullProblemSolution, currentArcMiddleState,
                forwardRun, backwardRun, lastWriter, reads>>
outVars    == <<written, failedArc>>
vars == <<pc, configVars, setupVars, libVars, loopVars, outVars>>

----------------------------------------------------------------------------
(* Bounds of the explored inputs. *)

\* the start epoch ranges over -MaxStartBack .. 0 days
MaxStartBack == 1
\* every leg duration ranges over 1 .. MaxDur days
MaxDur == 2
\* the case selector ranges over -MinSelectorHalf/2 .. MaxSelectorHalf/2 in steps of 1/2
MinSelectorHalf == 3
MaxSelectorHalf == 15
\* longest body sequence handed to the set-up code on its own
MaxBodies == 3

(* Program constants. *)

\* 86400.0 at lines 282 and 285; physical_constants::JULIAN_DAY at line 161 has this value
SecondsPerDay == 86400
\* the integrator's initial step, line 203
InitialTimeStep == 1000

----------------------------------------------------------------------------
(* Helpers for the C++ value model. *)

\* the double n
Fx(n) == 4 * n

\* conversion double -> int (line 119): truncation toward zero
DoubleToInt(d) == IF d >= 0 THEN d \div 4 ELSE -((-d) \div 4)

\* whether the double d is a whole number
IsIntegral(d) == d % 4 = 0

\* std::vector::at is 0-based and throws std::out_of_range outside 0 .. size-1
InRange(v, i) == i \in 0 .. (Len(v) - 1)
At(v, i) == v[i + 1]

Range(v) == { v[i] : i \in 1 .. Len(v) }

\* std::fabs
Fabs(x) == IF x < 0 THEN -x ELSE x

\* m[ key ].push_back( value ) on a std::map of vectors: operator[] inserts an
\* empty vector for a key that is not there yet
PushBack(m, key, value) ==
    IF key \in DOMAIN m
    THEN [m EXCEPT ![key] = Append(@, value)]
    ELSE [k \in DOMAIN m \cup {key} |-> IF k = key THEN <<value>> ELSE m[k]]

EmptyMap == [k \in {} |-> <<>>]

----------------------------------------------------------------------------
(* getAccelerationModelsPerturbedPatchedConicsTrajectory, lines 31-64.     *)
(* The settings of the propagated body are a map from the exerting body to *)
(* the list of its acceleration types; createAccelerationModelsMap turns   *)
(* every entry into one acceleration model.                                *)

\* lines 49-56 with the inner comparison left out: the next body is always added
NextBodyPerturbsNoCompare(i, numberOfLegs, order) ==
    i # numberOfLegs - 1

\* lines 49-51: whether the next body's gravity is added to leg i
NextBodyPerturbs(i, numberOfLegs, order) ==
    /\ i # numberOfLegs - 1
    /\ At(order, i) # At(order, i + 1)

\* lines 41-59: the body of the loop for leg i
LegAccelerationSettings(i, numberOfLegs, nameCentralBody, order) ==
    LET central == PushBack(EmptyMap, nameCentralBody, "central_gravity")
        current == PushBack(central, At(order, i), "point_mass_gravity")
    IN  IF NextBodyPerturbs(i, numberOfLegs, order)
        THEN PushBack(current, At(order, i + 1), "point_mass_gravity")
        ELSE current

\* the loop of line 39 run one leg short
AccelerationModelsOneShort(numberOfLegs, nameCentralBody, order) ==
    [leg \in 1 .. (numberOfLegs - 1) |->
        LegAccelerationSettings(leg - 1, numberOfLegs, nameCentralBody, order)]

\* lines 38-62: one entry per i in 0 .. numberOfLegs-1, in order
getAccelerationModelsPerturbedPatchedConicsTrajectory(numberOfLegs, nameCentralBody, order) ==
    [leg \in 1 .. numberOfLegs |->
        LegAccelerationSettings(leg - 1, numberOfLegs, nameCentralBody, order)]

----------------------------------------------------------------------------
(* main( ): transfer settings, lines 109-124. *)

\* line 111
transferCaseNames ==
    << <<"Earth", "Earth">>, <<"Venus", "Earth">>, <<"Earth", "Venus">>,
       <<"Venus", "Mars">>,  <<"Earth", "Mars">>,  <<"Mars", "Mars">>,
       <<"Mars", "Venus">> >>

\* line 122
BodyOrderFor(case) ==
    <<"Earth", "Venus", At(transferCaseNames, case)[1], At(transferCaseNames, case)[2],
      "Jupiter">>

\* line 124
LegTypesOfMain ==
    <<"mga_Departure", "mga_Swingby", "mga_Swingby", "mga_Swingby", "capture">>

\* the parameter vectors explored: line 116 with its six numbers varied
ParameterInputs ==
    { <<Fx(t0), Fx(d1), Fx(d2), Fx(d3), Fx(d4), 2 * h>> :
        t0 \in (-MaxStartBack) .. 0,
        d1 \in 1 .. MaxDur, d2 \in 1 .. MaxDur, d3 \in 1 .. MaxDur, d4 \in 1 .. MaxDur,
        h \in (-MinSelectorHalf) .. MaxSelectorHalf }

\* lines 158-165: all entries but the last, in seconds, then a NaN
IndependentVariablesOf(params) ==
    [i \in 1 .. (Len(params) - 1) |-> params[i] * SecondsPerDay] \o <<"NaN">>

----------------------------------------------------------------------------
(* main( ): the list of monitored bodies, lines 205-231. *)

\* lines 209-213 without the std::find test
AppendAlways(list, body) == Append(list, body)

\* lines 209-213: push_back unless std::find finds the body
AppendIfAbsent(list, body) ==
    IF body \in Range(list) THEN list ELSE Append(list, body)

\* lines 206-214: the loop over transferBodyOrder
RECURSIVE UniqueBodies(_, _)
UniqueBodies(order, n) ==
    IF n = 0 THEN <<>> ELSE AppendIfAbsent(UniqueBodies(order, n - 1), order[n])

\* lines 206-215
BodyListOf(order) == Append(UniqueBodies(order, Len(order)), "Sun")

\* lines 218-223
DependentVariableListOf(list) ==
    [i \in 1 .. Len(list) |->
        [type |-> "relative_distance_dependent_variable",
         body |-> "Spacecraft", relativeTo |-> list[i]]]

\* lines 226-231: one entry per element of transferBodyOrder, all the same list
DependentVariablesToSaveOf(order, list) ==
    [j \in 1 .. Len(order) |-> DependentVariableListOf(list)]

----------------------------------------------------------------------------
(* The library calls of main( ) whose code is not in this repository,      *)
(* described by what the specification says they return: every arc between *)
(* two consecutive bodies has a state history that spans the arc, from its *)
(* start epoch to its end epoch.                                           *)

RECURSIVE SumFirst(_, _)
SumFirst(v, n) == IF n = 0 THEN 0 ELSE SumFirst(v, n - 1) + v[n]

\* the arcs: one between every two consecutive bodies, keyed from 0
ArcsOf(legTypes) == 0 .. (Len(legTypes) - 2)

\* a state history of arc k: which computation made it, and its first and last epoch
LegHistory(kind, independentVariables, k) ==
    [kind  |-> kind,
     arc   |-> k,
     first |-> SumFirst(independentVariables, k + 1),
     last  |-> SumFirst(independentVariables, k + 2)]

\* fullPropagationPatchedConicsTrajectory's three output maps, lines 252-260
ResultForEachLeg(kind, independentVariables, legTypes) ==
    [k \in ArcsOf(legTypes) |-> LegHistory(kind, independentVariables, k)]

\* the settings the library starts an arc with: the analytic state at the middle of
\* the arc, and termination on the sphere of influence of a body (line 237)
LibraryArcSettings(independentVariables, k) ==
    LET analytic == LegHistory("lambert", independentVariables, k) IN
    [initialStates       |-> [kind  |-> analytic.kind,
                              arc   |-> analytic.arc,
                              epoch |-> (analytic.first + analytic.last) \div 2],
     terminationSettings |-> "sphereOfInfluence"]

\* getPatchedConicPropagatorSettings, lines 238-243: per arc a pair of settings,
\* for the backward and for the forward propagation from the middle of the arc
PatchedConicPropagatorSettings(independentVariables, legTypes) ==
    [k \in 1 .. (Len(legTypes) - 1) |->
        [first  |-> LibraryArcSettings(independentVariables, k - 1),
         second |-> LibraryArcSettings(independentVariables, k - 1)]]

----------------------------------------------------------------------------
(* main( ): the re-propagation of every arc, lines 271-328. *)

\* line 271
InitialArcMiddleTime(params) == At(params, 0) + At(params, 1) \div 2

\* currentArcMiddleTime * 86400.0, lines 282 and 285
MidEpoch(middleTime) == middleTime * SecondsPerDay

\* line 277 reading the other result map
SeedHistoryLambert(k) == lambertTargeterResultForEachLeg[k]

\* line 277: the history the middle state is interpolated in
SeedHistory(k) == fullProblemResultForEachLeg[k]

\* lines 280-282: the value of the interpolator of `history` at `epoch`
Interpolate(history, epoch) ==
    [kind |-> history.kind, arc |-> history.arc, epoch |-> epoch]

\* line 295 without the std::fabs
ForwardStepKeepsSign(step) == step

\* line 295
ForwardStep(step) == Fabs(step)

\* line 313
BackwardStep(step) == step * (-1)

\* lines 291-292
ForwardTermination(history) == history.last

\* lines 309-310
BackwardTermination(history) == history.first

\* line 308 left out: the settings keep the state they were given before
BackwardInitialStatesStale(seed, settings) == settings.first.initialStates

\* line 308: the state the backward settings are reset to
BackwardInitialStates(seed, settings) == seed

\* lines 298-299 and 316-317: what a SingleArcDynamicsSimulator, which integrates
\* in its constructor, reads from the two settings objects it is given
SimulatorRun(integrator, propagator) ==
    [initialTime  |-> integrator.initialTime_,
     step         |-> integrator.initialTimeStep_,
     initialState |-> propagator.initialStates,
     termination  |-> propagator.terminationSettings]

\* lines 323-327 with both indices one too low
NextArcMiddleTimeIndexLow(middleTime, params, arc, size) ==
    IF arc < size - 1
    THEN middleTime + (At(params, arc) + At(params, arc + 1)) \div 2
    ELSE middleTime

\* lines 323-325: the indices of trajectoryParameters the update reads after arc
ParametersReadByUpdate(arc, size) ==
    IF arc < size - 1 THEN {arc + 1, arc + 2} ELSE {}

\* lines 323-327 adding the next duration only
NextArcMiddleTimeHalf(middleTime, params, arc, size) ==
    IF arc < size - 1 THEN middleTime + At(params, arc + 2) \div 2 ELSE middleTime

\* lines 323-327
NextArcMiddleTime(middleTime, params, arc, size) ==
    IF arc < size - 1
    THEN middleTime + (At(params, arc + 1) + At(params, arc + 2)) \div 2
    ELSE middleTime

NumberOfResults == Cardinality(DOMAIN fullProblemResultForEachLeg)

----------------------------------------------------------------------------
(* The state after construction: line 116 holds the parameters. *)

InitRest ==
    /\ transferCase = -1
    /\ trajectoryIndependentVariables = <<>>
    /\ trajectoryComputed = FALSE
    /\ accelerationMap = <<>>
    /\ bodyList = <<>>
    /\ dependentVariablesToSave = <<>>
    /\ propagatorSettings = <<>>
    /\ integratorSettings = [initialTime_ |-> "NaN", initialTimeStep_ |-> InitialTimeStep]
    /\ lambertTargeterResultForEachLeg = EmptyMap
    /\ fullProblemResultForEachLeg = EmptyMap
    /\ dependentVariableResultForEachLeg = EmptyMap
    /\ currentArcMiddleTime = 0
    /\ resultIterator = 0
    /\ currentArc = -1
    /\ fullProblemSolution = "none"
    /\ currentArcMiddleState = "none"
    /\ forwardRun = EmptyMap
    /\ backwardRun = EmptyMap
    /\ written = {}
    /\ failedArc = -1
    /\ lastWriter = [middleTime |-> -1, timeStep |-> -1]
    /\ reads = EmptyMap

Init ==
    /\ pc = "start"
    /\ trajectoryParameters \in ParameterInputs
    /\ transferBodyOrder = <<>>
    /\ transferLegTypes = <<>>
    /\ InitRest

----------------------------------------------------------------------------
(* The steps of main( ). *)

\* lines 119-124; transferCaseNames.at throws out of range, and nothing catches it
SelectTransferCase ==
    /\ pc = "start"
    /\ transferCase' = DoubleToInt(At(trajectoryParameters, 5))
    /\ IF InRange(transferCaseNames, transferCase')
       THEN /\ transferBodyOrder' = BodyOrderFor(transferCase')
            /\ transferLegTypes' = LegTypesOfMain
            /\ pc' = "patchedConic"
       ELSE /\ pc' = "terminated"
            /\ UNCHANGED <<transferBodyOrder, transferLegTypes>>
    /\ UNCHANGED <<trajectoryParameters, trajectoryIndependentVariables, trajectoryComputed,
                   setupVars, libVars, loopVars, outVars>>

\* lines 136-186
ComputePatchedConic ==
    /\ pc = "patchedConic"
    /\ trajectoryIndependentVariables' = IndependentVariablesOf(trajectoryParameters)
    /\ trajectoryComputed' = TRUE
    /\ pc' = "accelerations"
    /\ UNCHANGED <<trajectoryParameters, transferCase, transferBodyOrder, transferLegTypes,
                   setupVars, libVars, loopVars, outVars>>

\* lines 193-203
BuildAccelerations ==
    /\ pc = "accelerations"
    /\ accelerationMap' = getAccelerationModelsPerturbedPatchedConicsTrajectory(
                              Len(transferLegTypes), "Sun", transferBodyOrder)
    /\ pc' = "dependentVariables"
    /\ UNCHANGED <<configVars, bodyList, dependentVariablesToSave, libVars, loopVars, outVars>>

\* lines 205-234
BuildDependentVariables ==
    /\ pc = "dependentVariables"
    /\ bodyList' = BodyListOf(transferBodyOrder)
    /\ dependentVariablesToSave' = DependentVariablesToSaveOf(transferBodyOrder, bodyList')
    /\ pc' = "propagate"
    /\ UNCHANGED <<configVars, accelerationMap, libVars, loopVars, outVars>>

\* lines 236-271
PropagateFullProblem ==
    /\ pc = "propagate"
    /\ propagatorSettings' = PatchedConicPropagatorSettings(trajectoryIndependentVariables,
                                                         transferLegTypes)
    /\ lambertTargeterResultForEachLeg' =
           ResultForEachLeg("lambert", trajectoryIndependentVariables, transferLegTypes)
    /\ fullProblemResultForEachLeg' =
           ResultForEachLeg("fullProblem", trajectoryIndependentVariables, transferLegTypes)
    /\ dependentVariableResultForEachLeg' =
           ResultForEachLeg("dependent", trajectoryIndependentVariables, transferLegTypes)
    /\ currentArcMiddleTime' = InitialArcMiddleTime(trajectoryParameters)
    /\ resultIterator' = 0
    /\ pc' = "loop"
    /\ UNCHANGED <<configVars, setupVars, integratorSettings, currentArc, fullProblemSolution,
                   currentArcMiddleState, forwardRun, backwardRun, lastWriter, reads, outVars>>

\* lines 272-295: the iterator is at an entry; up to the forward simulator
ConfigureForward ==
    /\ pc = "loop"
    /\ resultIterator \in DOMAIN fullProblemResultForEachLeg
    /\ currentArc' = resultIterator
    /\ fullProblemSolution' = SeedHistory(resultIterator)
    /\ currentArcMiddleState' =
           Interpolate(fullProblemSolution', MidEpoch(currentArcMiddleTime))
    /\ integratorSettings' =
           [initialTime_     |-> MidEpoch(currentArcMiddleTime),
            initialTimeStep_ |-> ForwardStep(integratorSettings.initialTimeStep_)]
    /\ propagatorSettings' =
           [propagatorSettings EXCEPT ![resultIterator + 1].second =
               [initialStates       |-> currentArcMiddleState',
                terminationSettings |-> ForwardTermination(fullProblemSolution')]]
    /\ reads' = reads @@ (resultIterator :> lastWriter)
    /\ lastWriter' = [lastWriter EXCEPT !.timeStep = resultIterator]
    /\ pc' = "forwardConfigured"
    /\ UNCHANGED <<configVars, setupVars, libVars, currentArcMiddleTime, resultIterator,
                   forwardRun, backwardRun, outVars>>

\* lines 298-302
RunForward ==
    /\ pc = "forwardConfigured"
    /\ forwardRun' = forwardRun @@
           (currentArc :> SimulatorRun(integratorSettings,
                                       At(propagatorSettings, resultIterator).second))
    /\ written' = written \cup {<<"numericalResultForward", resultIterator>>}
    /\ pc' = "forwardDone"
    /\ UNCHANGED <<configVars, setupVars, libVars, propagatorSettings, integratorSettings,
                   currentArcMiddleTime, resultIterator, currentArc, fullProblemSolution,
                   currentArcMiddleState, backwardRun, lastWriter, reads, failedArc>>

\* lines 305-313; the backward settings are the pair's second element too
ConfigureBackward ==
    /\ pc = "forwardDone"
    /\ propagatorSettings' =
           [propagatorSettings EXCEPT ![resultIterator + 1].second =
               [initialStates       |-> BackwardInitialStates(
                                            currentArcMiddleState,
                                            At(propagatorSettings, resultIterator)),
                terminationSettings |-> BackwardTermination(fullProblemSolution)]]
    /\ integratorSettings' =
           [integratorSettings EXCEPT
               !.initialTimeStep_ = BackwardStep(integratorSettings.initialTimeStep_)]
    /\ lastWriter' = [lastWriter EXCEPT !.timeStep = currentArc]
    /\ pc' = "backwardConfigured"
    /\ UNCHANGED <<configVars, setupVars, libVars, currentArcMiddleTime, resultIterator,
                   currentArc, fullProblemSolution, currentArcMiddleState, forwardRun,
                   backwardRun, reads, outVars>>

\* lines 315-320
RunBackward ==
    /\ pc = "backwardConfigured"
    /\ backwardRun' = backwardRun @@
           (currentArc :> SimulatorRun(integratorSettings,
                                       At(propagatorSettings, resultIterator).second))
    /\ written' = written \cup {<<"numericalResultBackward", resultIterator>>}
    /\ pc' = "backwardDone"
    /\ UNCHANGED <<configVars, setupVars, libVars, propagatorSettings, integratorSettings,
                   currentArcMiddleTime, resultIterator, currentArc, fullProblemSolution,
                   currentArcMiddleState, forwardRun, lastWriter, reads, failedArc>>

\* lines 322-328: the update, and the iterator moves on
UpdateArcMiddleTime ==
    /\ pc = "backwardDone"
    /\ currentArcMiddleTime' =
           NextArcMiddleTime(currentArcMiddleTime, trajectoryParameters, currentArc,
                             NumberOfResults)
    /\ lastWriter' = IF currentArc < NumberOfResults - 1
                     THEN [lastWriter EXCEPT !.middleTime = currentArc]
                     ELSE lastWriter
    /\ resultIterator' = resultIterator + 1
    /\ pc' = "loop"
    /\ UNCHANGED <<configVars, setupVars, libVars, propagatorSettings, integratorSettings,
                   currentArc, fullProblemSolution, currentArcMiddleState, forwardRun,
                   backwardRun, reads, outVars>>

\* lines 280-320 inside main( ), lines 98-358, which has no try block: an exception
\* thrown by the interpolator or by a simulator while an arc is processed leaves main
ExceptionLeavesMain ==
    /\ \/ pc = "loop" /\ resultIterator \in DOMAIN fullProblemResultForEachLeg
       \/ pc \in {"forwardConfigured", "backwardConfigured"}
    /\ failedArc' = resultIterator
    /\ pc' = "terminated"
    /\ UNCHANGED <<configVars, setupVars, libVars, loopVars, written>>

\* lines 330-358: the iterator is past the last entry; the three loops that write
WriteResults ==
    /\ pc = "loop"
    /\ resultIterator \notin DOMAIN fullProblemResultForEachLeg
    /\ written' = written
           \cup { <<"lambertResult", k>> : k \in DOMAIN lambertTargeterResultForEachLeg }
           \cup { <<"numericalResult", k>> : k \in DOMAIN fullProblemResultForEachLeg }
           \cup { <<"dependentResult", k>> : k \in DOMAIN dependentVariableResultForEachLeg }
    /\ pc' = "done"
    /\ UNCHANGED <<configVars, setupVars, libVars, loopVars, failedArc>>

Next ==
    \/ SelectTransferCase
    \/ ComputePatchedConic
    \/ BuildAccelerations
    \/ BuildDependentVariables
    \/ PropagateFullProblem
    \/ ConfigureForward
    \/ RunForward
    \/ ConfigureBackward
    \/ RunBackward
    \/ UpdateArcMiddleTime
    \/ ExceptionLeavesMain
    \/ WriteResults

Spec == Init /\ [][Next]_vars

----------------------------------------------------------------------------
(* The set-up code of lines 193-234 on its own: any body sequence of up to *)
(* MaxBodies bodies and any number of legs the sequence has bodies for.    *)

SetupBodies == {"Earth", "Venus", "Mars", "Sun"}

BodySequences ==
    UNION { [1 .. n -> SetupBodies] : n \in 1 .. MaxBodies }

InitSetup ==
    /\ pc = "accelerations"
    /\ trajectoryParameters = <<Fx(0), Fx(1), Fx(1), Fx(1), Fx(1), Fx(1)>>
    /\ transferBodyOrder \in BodySequences
    /\ \E n \in 1 .. Len(transferBodyOrder) :
           transferLegTypes = [i \in 1 .. n |-> "mga_Swingby"]
    /\ InitRest

NextSetup ==
    \/ BuildAccelerations
    \/ BuildDependentVariables

SpecSetup == InitSetup /\ [][NextSetup]_vars

----------------------------------------------------------------------------
(* Properties. *)

\* the legs the builder was asked for
LegIndices == 0 .. (Len(transferLegTypes) - 1)

AccelerationsBuilt ==
    /\ transferLegTypes # <<>>
    /\ pc \notin {"start", "patchedConic", "accelerations"}

\* the settings s hold exactly central gravity of the central body and one
\* point-mass gravity of every body of `bodies`
HoldsExactly(s, bodies) ==
    /\ DOMAIN s = {"Sun"} \cup bodies
    /\ s["Sun"] = <<"central_gravity">>
    /\ \A b \in bodies : s[b] = <<"point_mass_gravity">>

\* C1 as claimed: for every leg i of 0 .. numberOfLegs-1 the set holds central
\* gravity of the central body, point-mass gravity of body i, and point-mass gravity
\* of body i+1 if and only if body i+1 differs from body i (the central body not
\* being in the sequence).
C1_AsClaimed ==
    (AccelerationsBuilt /\ "Sun" \notin Range(transferBodyOrder)) =>
        \A i \in LegIndices :
            /\ InRange(accelerationMap, i)
            /\ HoldsExactly(At(accelerationMap, i),
                   {At(transferBodyOrder, i)} \cup
                   (IF /\ InRange(transferBodyOrder, i + 1)
                       /\ At(transferBodyOrder, i + 1) # At(transferBodyOrder, i)
                    THEN {At(transferBodyOrder, i + 1)} ELSE {}))

\* C1 amended: the same for every leg but the last; the set of the last leg,
\* i = numberOfLegs-1, holds central gravity and the gravity of body i only, whatever
\* body follows it.  No body has more than one gravity entry.
C1_PerturbationSets ==
    (AccelerationsBuilt /\ "Sun" \notin Range(transferBodyOrder)) =>
        \A i \in LegIndices :
            /\ InRange(accelerationMap, i)
            /\ HoldsExactly(At(accelerationMap, i),
                   {At(transferBodyOrder, i)} \cup
                   (IF /\ i < Len(transferLegTypes) - 1
                       /\ At(transferBodyOrder, i + 1) # At(transferBodyOrder, i)
                    THEN {At(transferBodyOrder, i + 1)} ELSE {}))

\* a sequence without the central body whose first two bodies are equal, a third
\* that differs, and two legs: the no-change flyby and the last leg both occur
C1_Witness ==
    /\ AccelerationsBuilt
    /\ "Sun" \notin Range(transferBodyOrder)
    /\ Len(transferBodyOrder) = 3
    /\ Len(transferLegTypes) = 2
    /\ transferBodyOrder[1] = transferBodyOrder[2]
    /\ transferBodyOrder[3] # transferBodyOrder[2]
    /\ DOMAIN accelerationMap[1] = {"Sun", transferBodyOrder[1]}
    /\ DOMAIN accelerationMap[2] = {"Sun", transferBodyOrder[2]}

\* C2 as claimed: the leg-type list of main and the list of perturbation sets both
\* have as many entries as there are bodies, less one.
C2_AsClaimed ==
    AccelerationsBuilt =>
        /\ Len(transferLegTypes) = Len(transferBodyOrder) - 1
        /\ Len(accelerationMap) = Len(transferBodyOrder) - 1

\* C2 amended: both have exactly as many entries as there are bodies, 5 in main.
C2_LegCount ==
    AccelerationsBuilt =>
        /\ Len(transferBodyOrder) = 5
        /\ Len(transferLegTypes) = Len(transferBodyOrder)
        /\ Len(accelerationMap) = Len(transferBodyOrder)

\* the default scenario, case 1, has run to its end
C2_Witness ==
    /\ pc = "done"
    /\ transferCase = 1
    /\ Len(accelerationMap) = 5

\* C3 as claimed: the state every forward and backward integration starts from is
\* the analytic (Lambert) history of the same leg interpolated at the integration's
\* initial epoch.
C3_AsClaimed ==
    /\ \A k \in DOMAIN forwardRun :
           /\ forwardRun[k].initialState.kind = "lambert"
           /\ forwardRun[k].initialState.arc = k
           /\ forwardRun[k].initialState.epoch = forwardRun[k].initialTime
    /\ \A k \in DOMAIN backwardRun :
           /\ backwardRun[k].initialState.kind = "lambert"
           /\ backwardRun[k].initialState.arc = k
           /\ backwardRun[k].initialState.epoch = backwardRun[k].initialTime

\* C3 amended: the state every forward and backward integration starts from is the
\* numerically propagated history of the same leg (fullProblemResultForEachLeg)
\* interpolated at the integration's initial epoch, which is the middle epoch the
\* loop holds for the leg; it is never taken from the analytic history.
C3_SeedFromPropagatedHistory ==
    /\ \A k \in DOMAIN forwardRun :
           /\ forwardRun[k].initialState.kind = "fullProblem"
           /\ forwardRun[k].initialState.arc = k
           /\ forwardRun[k].initialState.epoch = forwardRun[k].initialTime
    /\ \A k \in DOMAIN backwardRun :
           /\ backwardRun[k].initialState.kind = "fullProblem"
           /\ backwardRun[k].initialState.arc = k
           /\ backwardRun[k].initialState.epoch = backwardRun[k].initialTime
    /\ pc \in {"forwardConfigured", "forwardDone", "backwardConfigured", "backwardDone"} =>
           integratorSettings.initialTime_ = MidEpoch(currentArcMiddleTime)

\* every arc has been integrated forward and backward
C3_Witness ==
    /\ DOMAIN backwardRun = 0 .. 3
    /\ backwardRun[3].initialState.kind = "fullProblem"

\* C4: every forward integration runs with a positive step to the last epoch of its
\* leg's history, every backward integration with the negative step of the same
\* magnitude to the first epoch of its leg's history, whatever sign the step was
\* left with.
C4_StepSignsAndTermination ==
    /\ \A k \in DOMAIN forwardRun :
           /\ forwardRun[k].step > 0
           /\ forwardRun[k].termination = fullProblemResultForEachLeg[k].last
    /\ \A k \in DOMAIN backwardRun :
           /\ backwardRun[k].step < 0
           /\ backwardRun[k].step = -forwardRun[k].step
           /\ backwardRun[k].termination = fullProblemResultForEachLeg[k].first

\* the second arc has run forward from the negative step the first arc left behind
C4_Witness ==
    /\ 1 \in DOMAIN forwardRun
    /\ 0 \in DOMAIN backwardRun
    /\ backwardRun[0].step < 0
    /\ reads[1].timeStep = 0

\* C5: the backward integration of a leg starts from the initial epoch and the
\* initial state of its forward integration, and between the two configurations
\* the middle state and the integrator's initial time stay what the forward run had.
C5_SharedSeed ==
    /\ \A k \in DOMAIN backwardRun :
           /\ backwardRun[k].initialTime = forwardRun[k].initialTime
           /\ backwardRun[k].initialState = forwardRun[k].initialState
    /\ pc \in {"forwardDone", "backwardConfigured", "backwardDone"} =>
           /\ integratorSettings.initialTime_ = forwardRun[currentArc].initialTime
           /\ currentArcMiddleState = forwardRun[currentArc].initialState

\* a leg other than the first has run backward
C5_Witness ==
    /\ 2 \in DOMAIN backwardRun
    /\ backwardRun[2].initialState.arc = 2

\* C6 as claimed: no leg reads state written while another leg was processed: the
\* middle time and the time step a leg reads were assigned by the set-up or by the
\* processing of the leg itself.
C6_AsClaimed ==
    \A k \in DOMAIN reads :
        /\ reads[k].middleTime \in {-1, k}
        /\ reads[k].timeStep \in {-1, k}

\* C6 amended: the legs are tied to ascending sequential order.  Leg 0 reads the
\* middle time and the step of the set-up; every later leg k reads the middle time
\* written at the end of leg k-1 and the step left by leg k-1, and its middle epoch
\* is the one of leg k-1 advanced by half of the two durations around their common
\* body.  Only the seed history and the termination epochs are the leg's own.
C6_SequentialDependence ==
    /\ \A k \in DOMAIN reads :
           IF k = 0
           THEN reads[k] = [middleTime |-> -1, timeStep |-> -1]
           ELSE reads[k] = [middleTime |-> k - 1, timeStep |-> k - 1]
    /\ \A k \in DOMAIN forwardRun :
           /\ forwardRun[k].initialState.arc = k
           /\ forwardRun[k].termination = fullProblemResultForEachLeg[k].last
           /\ k > 0 =>
                  forwardRun[k].initialTime - forwardRun[k - 1].initialTime =
                      ((At(trajectoryParameters, k) + At(trajectoryParameters, k + 1))
                          \div 2) * SecondsPerDay
    /\ \A k \in DOMAIN backwardRun :
           backwardRun[k].termination = fullProblemResultForEachLeg[k].first

\* the last leg has run forward from the middle time the leg before it wrote
C6_Witness ==
    /\ 3 \in DOMAIN forwardRun
    /\ reads[3].middleTime = 2
    /\ forwardRun[3].initialTime > forwardRun[2].initialTime

\* C7 as claimed: a failure while one leg is re-propagated aborts that leg only:
\* the forward and backward tables of all other legs and the analytic, merged and
\* dependent-variable tables of all computed legs are written.
C7_AsClaimed ==
    (pc = "terminated" /\ failedArc >= 0) =>
        /\ \A k \in DOMAIN fullProblemResultForEachLeg \ {failedArc} :
               /\ <<"numericalResultForward", k>> \in written
               /\ <<"numericalResultBackward", k>> \in written
        /\ \A k \in DOMAIN lambertTargeterResultForEachLeg :
               <<"lambertResult", k>> \in written
        /\ \A k \in DOMAIN fullProblemResultForEachLeg :
               <<"numericalResult", k>> \in written
        /\ \A k \in DOMAIN dependentVariableResultForEachLeg :
               <<"dependentResult", k>> \in written

\* the last parameter is a whole number that indexes the table of cases
ValidCaseSelector ==
    /\ IsIntegral(At(trajectoryParameters, 5))
    /\ InRange(transferCaseNames, At(trajectoryParameters, 5) \div 4)

\* C8 as claimed: with an invalid case selector the body sequence is never built,
\* no trajectory is computed and nothing is written.
C8_AsClaimed ==
    ~ValidCaseSelector =>
        /\ transferBodyOrder = <<>>
        /\ ~trajectoryComputed
        /\ written = {}

\* position of the first occurrence of body b in the sequence
FirstIndex(order, b) ==
    CHOOSE i \in 1 .. Len(order) :
        order[i] = b /\ \A j \in 1 .. (i - 1) : order[j] # b

\* C10: the list of monitored bodies holds every body of the sequence once, in the
\* order of first appearance, then the central body; every leg's dependent-variable
\* settings ask for the distance of the spacecraft to exactly these, in this order.
C10_MonitoredBodies ==
    bodyList # <<>> =>
        LET n == Len(bodyList) IN
        /\ n = Cardinality(Range(transferBodyOrder)) + 1
        /\ bodyList[n] = "Sun"
        /\ { bodyList[i] : i \in 1 .. (n - 1) } = Range(transferBodyOrder)
        /\ \A i, j \in 1 .. (n - 1) :
               i < j => FirstIndex(transferBodyOrder, bodyList[i])
                            < FirstIndex(transferBodyOrder, bodyList[j])
        /\ \A leg \in LegIndices :
               /\ InRange(dependentVariablesToSave, leg)
               /\ Len(At(dependentVariablesToSave, leg)) = n
               /\ \A i \in 1 .. n :
                      At(dependentVariablesToSave, leg)[i] =
                          [type |-> "relative_distance_dependent_variable",
                           body |-> "Spacecraft", relativeTo |-> bodyList[i]]

\* a three-body sequence that comes back to its first body
C10_Witness ==
    /\ bodyList # <<>>
    /\ Len(transferBodyOrder) = 3
    /\ transferBodyOrder[1] = transferBodyOrder[3]
    /\ transferBodyOrder[2] # transferBodyOrder[1]
    /\ "Sun" \notin Range(transferBodyOrder)
    /\ Len(bodyList) = 3

\* C11: the middle epoch of every processed leg k, used for the interpolation and as
\* the integrator's initial time, is t0 + d1 + ... + dk + d(k+1)/2 (in seconds), the
\* mean of the first and last epoch of the leg's history; and the update of the
\* middle time reads entries 1 .. 4 of the parameter vector only, the durations.
C11_MiddleEpoch ==
    /\ \A k \in DOMAIN forwardRun :
           LET legStart == SumFirst(trajectoryParameters, k + 1)
               middle   == legStart + At(trajectoryParameters, k + 1) \div 2
           IN  /\ k + 1 \in 1 .. 4
               /\ forwardRun[k].initialTime = middle * SecondsPerDay
               /\ forwardRun[k].initialState.epoch = middle * SecondsPerDay
               /\ 2 * forwardRun[k].initialTime =
                      fullProblemResultForEachLeg[k].first
                          + fullProblemResultForEachLeg[k].last
    /\ \A k \in DOMAIN backwardRun :
           /\ backwardRun[k].initialTime = forwardRun[k].initialTime
           /\ backwardRun[k].initialState.epoch = forwardRun[k].initialTime
    /\ pc = "backwardDone" =>
           /\ ParametersReadByUpdate(currentArc, NumberOfResults) \subseteq 1 .. 4
           /\ \A i \in ParametersReadByUpdate(currentArc, NumberOfResults) :
                  InRange(trajectoryParameters, i)

\* all four legs have run, with durations that are not all the same
C11_Witness ==
    /\ pc = "done"
    /\ DOMAIN backwardRun = 0 .. 3
    /\ At(trajectoryParameters, 1) # At(trajectoryParameters, 2)
    /\ At(trajectoryParameters, 3) # At(trajectoryParameters, 4)
    /\ forwardRun[3].initialTime =
           (SumFirst(trajectoryParameters, 4) + At(trajectoryParameters, 4) \div 2)
               * SecondsPerDay

====
